---- MODULE Spec2Model ----
(***************************************************************************)
(* The view-transform and gesture engine of extent-canvas: the hook        *)
(* useExtentCanvas (src/src/hook.ts), its resize-aware variant             *)
(* (src/unnamed/part_000), the single-file variant (src/src/index.tsx)     *)
(* and the coordinate math (src/src/math.ts).                              *)
(*                                                                         *)
(* JavaScript numbers are modelled as exact extended rationals: a pair     *)
(* <<n, d>> in lowest terms with d >= 0, where d = 0 encodes the IEEE      *)
(* values a division by zero produces: <<1,0>> is Infinity, <<-1,0>> is    *)
(* -Infinity and <<0,0>> is NaN.  Floating-point rounding error and the    *)
(* sign of zero are not modelled.                                          *)
(***************************************************************************)
EXTENDS Integers, Sequences, FiniteSets, TLC

----------------------------------------------------------------------------
(* JavaScript number arithmetic                                            *)

RECURSIVE GCD(_, _)
GCD(a, b) == IF b = 0 THEN a ELSE GCD(b, a % b)

AbsInt(n) == IF n < 0 THEN -n ELSE n

SignInt(n) == IF n < 0 THEN -1 ELSE IF n > 0 THEN 1 ELSE 0

\* The number n/d in canonical form.
Num(n, d) ==
  IF d = 0 THEN <<SignInt(n), 0>>
  ELSE LET g == GCD(AbsInt(n), AbsInt(d))
           s == IF d < 0 THEN -1 ELSE 1
       IN  <<(s * n) \div g, (s * d) \div g>>

N(n) == <<n, 1>>

NaN == <<0, 0>>

Infinity == <<1, 0>>

IsNaN(a) == a = NaN

IsFinite(a) == a[2] > 0

\* a + b
Plus(a, b) ==
  IF IsNaN(a) \/ IsNaN(b) THEN NaN
  ELSE IF a[2] = 0 /\ b[2] = 0 THEN (IF a = b THEN a ELSE NaN)
  ELSE Num(a[1] * b[2] + b[1] * a[2], a[2] * b[2])

\* -a
Neg(a) == <<-a[1], a[2]>>

\* a - b
Minus(a, b) == Plus(a, Neg(b))

\* a * b
Times(a, b) == Num(a[1] * b[1], a[2] * b[2])

\* a / b
Div(a, b) ==
  IF IsNaN(b) THEN NaN
  ELSE LET s == IF b[1] < 0 THEN -1 ELSE 1
       IN  Num(s * a[1] * b[2], a[2] * AbsInt(b[1]))

\* a < b
Lt(a, b) ==
  IF IsNaN(a) \/ IsNaN(b) THEN FALSE
  ELSE IF a[2] = 0 /\ b[2] = 0 THEN a[1] < b[1]
  ELSE a[1] * b[2] < b[1] * a[2]

\* a <= b
Le(a, b) == ~IsNaN(a) /\ ~IsNaN(b) /\ ~Lt(b, a)

\* a > b
Gt(a, b) == Lt(b, a)

MathMin(a, b) ==
  IF IsNaN(a) \/ IsNaN(b) THEN NaN ELSE IF Lt(b, a) THEN b ELSE a

MathMax(a, b) ==
  IF IsNaN(a) \/ IsNaN(b) THEN NaN ELSE IF Lt(a, b) THEN b ELSE a

MathAbs(a) == <<AbsInt(a[1]), a[2]>>

\* Math.round: the nearest integer, halves rounded towards +Infinity.
MathRound(a) ==
  IF a[2] = 0 THEN a ELSE N((2 * a[1] + a[2]) \div (2 * a[2]))

\* The exact square root of a perfect square.
IntSqrt(n) == CHOOSE r \in 0..n : r * r = n

\* Math.sqrt, on the numbers whose root is rational.
MathSqrt(a) ==
  IF a[2] = 0 THEN (IF a = Infinity THEN a ELSE NaN)
  ELSE IF a[1] < 0 THEN NaN
  ELSE Num(IntSqrt(a[1]), IntSqrt(a[2]))

\* The value undefined of an optional argument.
Undefined == <<>>

\* a ?? b
Nullish(a, b) == IF a = Undefined THEN b ELSE a

----------------------------------------------------------------------------
(* math.ts                                                                 *)

Point(px, py) == [x |-> px, y |-> py]

add(p1, p2) == Point(Plus(p1.x, p2.x), Plus(p1.y, p2.y))

diff(p1, p2) == Point(Minus(p1.x, p2.x), Minus(p1.y, p2.y))

scale(p, s) == Point(Div(p.x, s), Div(p.y, s))

\* rect is the canvas' bounding client rectangle's {left, top}.
getCursorOffset(clientX, clientY, rect) ==
  diff(Point(clientX, clientY), Point(rect.left, rect.top))

\* calculateViewBox with the visible extent subtracted.
calculateViewBoxMinus(size, view) ==
  [top    |-> MathRound(Neg(view.offset.y)),
   bottom |-> MathRound(Minus(Neg(view.offset.y), Div(size.height, view.scale))),
   left   |-> MathRound(Neg(view.offset.x)),
   right  |-> MathRound(Minus(Neg(view.offset.x), Div(size.width, view.scale)))]

calculateViewBox(size, view) ==
  [top    |-> MathRound(Neg(view.offset.y)),
   bottom |-> MathRound(Plus(Neg(view.offset.y), Div(size.height, view.scale))),
   left   |-> MathRound(Neg(view.offset.x)),
   right  |-> MathRound(Plus(Neg(view.offset.x), Div(size.width, view.scale)))]

\* calculateCanvasView fitting the larger of the two ratios.
calculateCanvasViewMax(size, box) ==
  LET boxWidth  == Minus(box.right, box.left)
      boxHeight == Minus(box.bottom, box.top)
      s == MathMax(Div(size.width, boxWidth), Div(size.height, boxHeight))
      x == Neg(Minus(Plus(box.left, Div(boxWidth, N(2))),
                     Div(size.width, Times(N(2), s))))
      y == Neg(Minus(Plus(box.top, Div(boxHeight, N(2))),
                     Div(size.height, Times(N(2), s))))
  IN  [scale |-> s, offset |-> Point(x, y)]

calculateCanvasView(size, box) ==
  LET boxWidth  == Minus(box.right, box.left)
      boxHeight == Minus(box.bottom, box.top)
      s == MathMin(Div(size.width, boxWidth), Div(size.height, boxHeight))
      x == Neg(Minus(Plus(box.left, Div(boxWidth, N(2))),
                     Div(size.width, Times(N(2), s))))
      y == Neg(Minus(Plus(box.top, Div(boxHeight, N(2))),
                     Div(size.height, Times(N(2), s))))
  IN  [scale |-> s, offset |-> Point(x, y)]

\* calculateCanvasPosition rounding down.
calculateCanvasPositionFloor(view, x, y) ==
  LET floor(q) == N(q[1] \div q[2])
  IN  Point(floor(Plus(Times(view.offset.x, N(-1)), Div(x, view.scale))),
            floor(Plus(Times(view.offset.y, N(-1)), Div(y, view.scale))))

calculateCanvasPosition(view, x, y) ==
  Point(MathRound(Plus(Times(view.offset.x, N(-1)), Div(x, view.scale))),
        MathRound(Plus(Times(view.offset.y, N(-1)), Div(y, view.scale))))

Touch(cx, cy) == [clientX |-> cx, clientY |-> cy]

getTouchDistance(t1, t2) ==
  MathSqrt(Plus(Times(Minus(t1.clientX, t2.clientX), Minus(t1.clientX, t2.clientX)),
                Times(Minus(t1.clientY, t2.clientY), Minus(t1.clientY, t2.clientY))))

\* getTouchCoordinates dividing by 2 whatever the number of touches.
getTouchCoordinatesHalved(touches) ==
  LET t1 == IF Len(touches) >= 1 THEN touches[1] ELSE Touch(N(0), N(0))
      t2 == IF Len(touches) >= 2 THEN touches[2] ELSE Touch(N(0), N(0))
  IN  [x  |-> Div(Plus(t1.clientX, t2.clientX), N(2)),
       y  |-> Div(Plus(t1.clientY, t2.clientY), N(2)),
       t1 |-> t1,
       t2 |-> t2]

\* touches is the event's touch list, a sequence of touches.
getTouchCoordinates(touches) ==
  LET t1 == IF Len(touches) >= 1 THEN touches[1] ELSE Touch(N(0), N(0))
      t2 == IF Len(touches) >= 2 THEN touches[2] ELSE Touch(N(0), N(0))
      touchCount == IF Len(touches) = 2 THEN N(2) ELSE N(1)
  IN  [x  |-> Div(Plus(t1.clientX, t2.clientX), touchCount),
       y  |-> Div(Plus(t1.clientY, t2.clientY), touchCount),
       t1 |-> t1,
       t2 |-> t2]

----------------------------------------------------------------------------
(* Inputs and bounds                                                       *)

\* The number of setter calls and input events delivered in one behaviour.
MaxEvents == 3

DefaultInitialScale == 1

DefaultZoomSensitivity == 320

DefaultInitialPosition == Point(N(0), N(0))

View(ox, oy, s) == [offset |-> Point(ox, oy), scale |-> s]

Box(t, b, l, r) == [top |-> t, bottom |-> b, left |-> l, right |-> r]

Callbacks == {"onContextInit", "onBeforeDraw", "onDraw", "onViewChange", "onViewBoxChange"}

\* The arguments the hook is called with; variant names the file the engine
\* is taken from.
Args(variant, initialScale, zoomSensitivity, minScale, maxScale, bound) ==
  [variant         |-> variant,
   initialPosition |-> DefaultInitialPosition,
   initialScale    |-> initialScale,
   zoomSensitivity |-> zoomSensitivity,
   minScale        |-> minScale,
   maxScale        |-> maxScale,
   bound           |-> bound]

\* The canvas element: its raster size and the top left corner of its
\* bounding client rectangle.
Canvas(width, height, left, top) ==
  [width |-> N(width), height |-> N(height), left |-> N(left), top |-> N(top)]

DefaultArgs ==
  Args("hook", N(DefaultInitialScale), N(DefaultZoomSensitivity), Undefined, Undefined,
       Callbacks)

OriginCanvas == Canvas(800, 600, 0, 0)

\* The mounted configurations explored: the hook's arguments and the canvas.
Configs ==
  { [args |-> DefaultArgs, canvas |-> OriginCanvas],
    [args |-> Args("hook", N(1), N(320), Num(1, 2), N(2), Callbacks),
     canvas |-> Canvas(400, 400, 10, 20)],
    [args |-> Args("resize", N(1), N(320), Undefined, N(2), Callbacks),
     canvas |-> Canvas(400, 400, 0, 0)],
    [args |-> Args("index", N(2), N(100), Num(1, 2), Undefined,
                   Callbacks \ {"onBeforeDraw", "onViewBoxChange"}),
     canvas |-> Canvas(800, 600, 10, 20)] }

\* Client positions of mouse and wheel events.
MousePoints == { <<N(100), N(100)>>, <<N(150), N(130)>> }

\* Client positions of wheel events.
WheelPoints == { <<N(100), N(100)>> }

WheelDeltas == { N(-160), N(160), N(320), N(-320) }

\* Views handed to setView: a scale > 0, inside or outside the bounds.
SetViews == { View(N(50), N(30), N(2)), View(N(-10), N(5), N(8)) }

\* Boxes handed to setViewBox: right > left and bottom > top.
SetViewBoxes == { Box(N(-10), N(90), N(20), N(70)) }

\* Touch lists of touch events: one, two and three touches.  The distance of
\* the first two touches of a list is rational.
OneTouchA == << Touch(N(100), N(100)) >>

OneTouchB == << Touch(N(150), N(130)) >>

TwoTouchA == << Touch(N(100), N(100)), Touch(N(100), N(110)) >>

TwoTouchB == << Touch(N(100), N(100)), Touch(N(130), N(140)) >>

ThreeTouch == << Touch(N(0), N(0)), Touch(N(6), N(8)), Touch(N(3), N(10)) >>

TouchStartLists == { OneTouchA, TwoTouchA, ThreeTouch }

TouchMoveLists == { OneTouchB, TwoTouchB, ThreeTouch }

TouchEndLists == { << >>, OneTouchA }

----------------------------------------------------------------------------
(* State                                                                   *)

VARIABLES
  args,               \* the hook's arguments
  canvas,             \* context.canvas: width, height, bounding rectangle
  context,            \* FALSE while the context state is null
  transform,          \* the context's current transform
  viewRef,            \* viewRef.current
  posRef,             \* posRef.current
  prevPosRef,         \* prevPosRef.current
  isDragging,         \* local of the listener effect
  prevPinchDistance,  \* local of the listener effect
  log,                \* the callbacks and context calls of the last step
  ev,                 \* the last setter call or input event
  pre,                \* the engine state the last step started from
  steps,              \* number of setter calls and events so far
  drag,               \* the mouse drag in progress, since its mousedown
  scen,               \* how many events of the scenario have been replayed
  pinch,              \* the two-touch pinch in progress, since its touchstart
  held                \* the mouse button held down, across touchstart/touchend

vars == <<args, canvas, context, transform, viewRef, posRef, prevPosRef, isDragging,
          prevPinchDistance, log, ev, pre, steps, drag, scen, pinch,
          held>>

Identity == [a |-> N(1), e |-> N(0), f |-> N(0)]

NoDrag == [active |-> FALSE, p0 |-> DefaultInitialPosition,
           offset |-> DefaultInitialPosition, scale |-> N(1)]

NoPinch == [active |-> FALSE, d0 |-> N(0), scale |-> N(1), clamped |-> FALSE]

Snapshot ==
  [viewRef |-> viewRef, posRef |-> posRef, prevPosRef |-> prevPosRef,
   isDragging |-> isDragging, prevPinchDistance |-> prevPinchDistance,
   context |-> context, op |-> ev.op, canvas |-> canvas]

\* The state after the hook's first render with one of the configurations.
Mounted(configs) ==
  /\ \E c \in configs : args = c.args /\ canvas = c.canvas
  /\ context = FALSE
  /\ transform = Identity
  /\ viewRef = [offset |-> args.initialPosition, scale |-> args.initialScale]
  /\ posRef = args.initialPosition
  /\ prevPosRef = args.initialPosition
  /\ isDragging = FALSE
  /\ prevPinchDistance = N(0)
  /\ log = << >>
  /\ ev = [op |-> "none"]
  /\ pre = [viewRef |-> viewRef, posRef |-> posRef, prevPosRef |-> prevPosRef,
            isDragging |-> FALSE, prevPinchDistance |-> N(0), context |-> FALSE,
            op |-> "none", canvas |-> canvas]
  /\ steps = 0
  /\ drag = NoDrag
  /\ scen = IF args = DefaultArgs /\ canvas = OriginCanvas THEN 0 ELSE -1
  /\ pinch = NoPinch
  /\ held = NoDrag

Init == Mounted(Configs)

----------------------------------------------------------------------------
(* draw, setView, setViewBox                                               *)

Call(name, arg, reason) == [call |-> name, arg |-> arg, reason |-> reason]

\* callback?.(...): the call, when the callback is bound.
Optional(name, arg, reason) ==
  IF name \in args.bound THEN << Call(name, arg, reason) >> ELSE << >>

ViewArg(v) == << v.offset.x, v.offset.y, v.scale >>

BoxArg(b) == << b.top, b.bottom, b.left, b.right >>

TransformArg(t) == << t.a, t.e, t.f >>

canvasSize == [width |-> canvas.width, height |-> canvas.height]

\* drawSkipped without the test of the context.
drawSkippedNoContext(ctx) == canvas.width = N(0) \/ canvas.height = N(0)

\* drawSkipped without the test of the canvas' width and height.
drawSkippedNoArea(ctx) == ~ctx

\* draw returns early: context (ctx) is null, or the canvas has zero width or
\* height.
drawSkipped(ctx) == ~ctx \/ canvas.width = N(0) \/ canvas.height = N(0)

\* The transform after context.scale(scale, scale); context.translate(x, y)
\* on the identity.
viewTransform(v) ==
  [a |-> v.scale, e |-> Times(v.scale, v.offset.x), f |-> Times(v.scale, v.offset.y)]

\* clearRect with the extent of hook.ts in every variant.
clearRectHookExtent(v) ==
  << Minus(Neg(v.offset.x), canvas.width),
     Minus(Neg(v.offset.y), canvas.height),
     Div(canvas.width, v.scale),
     Div(canvas.height, v.scale) >>

\* The rectangle draw clears, in the coordinates of the view transform.
clearRect(v) ==
  IF args.variant = "index"
  THEN << Minus(Neg(v.offset.x), canvas.width),
          Minus(Neg(v.offset.y), canvas.height),
          Plus(canvas.width, Div(canvas.width, v.scale)),
          Plus(canvas.height, Div(canvas.height, v.scale)) >>
  ELSE << Minus(Neg(v.offset.x), canvas.width),
          Minus(Neg(v.offset.y), canvas.height),
          Div(canvas.width, v.scale),
          Div(canvas.height, v.scale) >>

\* draw calling onBeforeDraw after the view transform is applied.
drawHookLate(ctx, v) ==
  << Call("draw", << >>, "") >> \o
  IF drawSkipped(ctx) THEN << >>
  ELSE << Call("resetTransform", << >>, ""),
          Call("scale", << v.scale, v.scale >>, ""),
          Call("translate", << v.offset.x, v.offset.y >>, "") >>
       \o Optional("onBeforeDraw", TransformArg(viewTransform(v)), "")
       \o << Call("clearRect", clearRect(v), "") >>
       \o Optional("onDraw", TransformArg(viewTransform(v)), "")

\* The calls of one draw() with viewRef.current = v, the invocation first.
draw(ctx, v) ==
  << Call("draw", << >>, "") >> \o
  IF drawSkipped(ctx) THEN << >>
  ELSE << Call("resetTransform", << >>, "") >>
       \o Optional("onBeforeDraw", TransformArg(Identity), "")
       \o << Call("scale", << v.scale, v.scale >>, ""),
             Call("translate", << v.offset.x, v.offset.y >>, ""),
             Call("clearRect", clearRect(v), "") >>
       \o Optional("onDraw", TransformArg(viewTransform(v)), "")

\* The context's transform after draw().
drawTransform(ctx, v) == IF drawSkipped(ctx) THEN transform ELSE viewTransform(v)

\* notify calling onViewBoxChange before onViewChange.
notifyBoxFirst(v, reason) ==
  Optional("onViewBoxChange", BoxArg(calculateViewBox(canvasSize, v)), reason)
  \o Optional("onViewChange", ViewArg(v), reason)

\* onViewChange?.(view, reason); onViewBoxChange?.(calculateViewBox(...), reason)
notify(v, reason) ==
  Optional("onViewChange", ViewArg(v), reason)
  \o Optional("onViewBoxChange", BoxArg(calculateViewBox(canvasSize, v)), reason)

\* The notifications of setView and setViewBox.
notifySet(v) ==
  IF args.variant = "resize"
  THEN Optional("onViewChange", ViewArg(v), "set")
  ELSE notify(v, "set")

\* Another setter call or input event may be delivered.
MayStep == steps < MaxEvents

\* What every step records: the event, the state it started from, the
\* count of events, the drag in progress and the progress of the scenario.
ScenarioEvents ==
  << [op |-> "mousedown", clientX |-> N(100), clientY |-> N(100)],
     [op |-> "mousemove", clientX |-> N(150), clientY |-> N(130)],
     [op |-> "wheel", clientX |-> N(100), clientY |-> N(100), deltaY |-> N(-160)] >>

IsScenarioEvent(e, k) ==
  /\ k \in 1..Len(ScenarioEvents)
  /\ e.op = ScenarioEvents[k].op
  /\ e.clientX = ScenarioEvents[k].clientX
  /\ e.clientY = ScenarioEvents[k].clientY
  /\ (e.op = "wheel" => e.deltaY = ScenarioEvents[k].deltaY)

\* s is within the bounds that are configured.
InConfiguredBounds(s) ==
  /\ args.minScale # Undefined => Le(args.minScale, s)
  /\ args.maxScale # Undefined => Le(s, args.maxScale)

\* The pinch a touch event leaves in progress: a touchstart with two touches
\* apart begins one, a touchmove with two touches apart continues it, and
\* it remembers whether a target scale was outside the bounds.
pinchAfter(e) ==
  LET d == getTouchDistance(e.touches[1], e.touches[2])
  IN  IF e.op = "touchstart" /\ Len(e.touches) = 2 /\ Gt(d, N(0))
      THEN [active |-> TRUE, d0 |-> d, scale |-> viewRef.scale, clamped |-> FALSE]
      ELSE IF e.op = "touchmove" /\ Len(e.touches) = 2 /\ pinch.active /\ Gt(d, N(0))
           THEN [pinch EXCEPT !.clamped =
                   @ \/ ~InConfiguredBounds(Times(viewRef.scale, Div(d, prevPinchDistance)))]
           ELSE NoPinch

\* The mouse drag an event leaves in progress when touchstart and touchend
\* events between its mousedown and its mousemove events do not end it.
heldAfter(e) ==
  IF e.op = "mousedown"
  THEN [active |-> TRUE,
        p0     |-> diff(Point(e.clientX, e.clientY), Point(canvas.left, canvas.top)),
        offset |-> viewRef.offset,
        scale  |-> viewRef.scale]
  ELSE IF e.op \in {"mousemove", "touchstart", "touchend"} THEN held ELSE NoDrag

RecordEvent(e) ==
  /\ steps' = steps + 1
  /\ ev' = e
  /\ pre' = Snapshot
  /\ drag' = IF e.op = "mousedown"
             THEN [active |-> TRUE,
                   p0     |-> diff(Point(e.clientX, e.clientY),
                                   Point(canvas.left, canvas.top)),
                   offset |-> viewRef.offset,
                   scale  |-> viewRef.scale]
             ELSE IF e.op = "mousemove" THEN drag ELSE NoDrag
  /\ scen' = IF scen >= 0 /\ e.op \in {"mousedown", "mousemove", "wheel"}
                /\ IsScenarioEvent(e, scen + 1)
             THEN scen + 1 ELSE -1
  /\ pinch' = IF e.op \in {"touchstart", "touchmove"} THEN pinchAfter(e) ELSE NoPinch
  /\ held' = heldAfter(e)

\* The record of a step that leaves the arguments and the canvas alone.
Record(e) == RecordEvent(e) /\ UNCHANGED << args, canvas >>

\* The context becomes available: setContext, then the effects that depend
\* on it run: the listeners are attached, onContextInit is called (not in
\* part_000) and the canvas is drawn.
contextInit ==
  /\ ~context
  /\ context' = TRUE
  /\ isDragging' = FALSE
  /\ prevPinchDistance' = N(0)
  /\ log' = (IF args.variant = "resize" THEN << >> ELSE Optional("onContextInit", << >>, ""))
            \o draw(TRUE, viewRef)
  /\ transform' = drawTransform(TRUE, viewRef)
  /\ ev' = [op |-> "contextInit"]
  /\ pre' = Snapshot
  /\ UNCHANGED << args, canvas, viewRef, posRef, prevPosRef, steps, drag, scen, pinch,
                  held >>

setView(view) ==
  /\ MayStep
  /\ IF ~context
     THEN /\ log' = << >>
          /\ UNCHANGED << viewRef, transform >>
     ELSE /\ viewRef' = view
          /\ log' = notifySet(view) \o draw(context, view)
          /\ transform' = drawTransform(context, view)
  /\ UNCHANGED << context, posRef, prevPosRef, isDragging, prevPinchDistance >>
  /\ Record([op |-> "setView", view |-> view])

setViewBox(viewBox) ==
  /\ MayStep
  /\ IF ~context
     THEN /\ log' = << >>
          /\ UNCHANGED << viewRef, transform >>
     ELSE LET view == calculateCanvasView(canvasSize, viewBox)
          IN  /\ viewRef' = view
              /\ log' = notifySet(view) \o draw(context, view)
              /\ transform' = drawTransform(context, view)
  /\ UNCHANGED << context, posRef, prevPosRef, isDragging, prevPinchDistance >>
  /\ Record([op |-> "setViewBox", viewBox |-> viewBox])

----------------------------------------------------------------------------
(* The listeners attached to the canvas                                    *)

rect == [left |-> canvas.left, top |-> canvas.top]

handleMouseDown(clientX, clientY) ==
  /\ MayStep
  /\ context
  /\ isDragging' = TRUE
  /\ posRef' = getCursorOffset(clientX, clientY, rect)
  /\ log' = << >>
  /\ UNCHANGED << context, transform, viewRef, prevPosRef, prevPinchDistance >>
  /\ Record([op |-> "mousedown", clientX |-> clientX, clientY |-> clientY])

\* newDiff multiplying by the scale.
newDiffTimes(pos, prev, s) ==
  Point(Times(Minus(pos.x, prev.x), s), Times(Minus(pos.y, prev.y), s))

\* newDiff of handleMouseMove and handleTouchMove: the pan of a pointer moved from prev to pos.
newDiff(pos, prev, s) == scale(diff(pos, prev), s)

handleMouseMove(clientX, clientY) ==
  /\ MayStep
  /\ context
  /\ IF ~isDragging
     THEN /\ log' = << >>
          /\ UNCHANGED << posRef, prevPosRef, viewRef, transform >>
     ELSE LET pos  == getCursorOffset(clientX, clientY, rect)
              view == [viewRef EXCEPT !.offset =
                         add(viewRef.offset, newDiff(pos, posRef, viewRef.scale))]
          IN  /\ prevPosRef' = posRef
              /\ posRef' = pos
              /\ viewRef' = view
              /\ log' = notify(view, "move") \o draw(context, view)
              /\ transform' = drawTransform(context, view)
  /\ UNCHANGED << context, isDragging, prevPinchDistance >>
  /\ Record([op |-> "mousemove", clientX |-> clientX, clientY |-> clientY])

\* handleMouseUp leaving isDragging as it is.
handleMouseUpKeepsDrag(type) ==
  /\ MayStep
  /\ context
  /\ log' = << >>
  /\ UNCHANGED << context, transform, viewRef, posRef, prevPosRef, prevPinchDistance,
                  isDragging >>
  /\ Record([op |-> type])

\* The listener of mouseup and of mouseleave.
handleMouseUp(type) ==
  /\ MayStep
  /\ context
  /\ isDragging' = FALSE
  /\ log' = << >>
  /\ UNCHANGED << context, transform, viewRef, posRef, prevPosRef, prevPinchDistance >>
  /\ Record([op |-> type])

\* unclamedScale with the two directions exchanged.
unclamedScaleExchanged(s, deltaY) ==
  LET absDelta   == Minus(N(1), Div(MathAbs(deltaY), args.zoomSensitivity))
      isPositive == Gt(deltaY, N(0))
  IN  IF isPositive THEN Div(s, absDelta) ELSE Times(s, absDelta)

\* unclamedScale with deltaY in the place of its absolute value.
unclamedScaleSigned(s, deltaY) ==
  LET absDelta   == Minus(N(1), Div(deltaY, args.zoomSensitivity))
      isPositive == Gt(deltaY, N(0))
  IN  IF isPositive THEN Times(s, absDelta) ELSE Div(s, absDelta)

\* unclamedScale of handleWheel.
unclamedScale(s, deltaY) ==
  LET absDelta   == Minus(N(1), Div(MathAbs(deltaY), args.zoomSensitivity))
      isPositive == Gt(deltaY, N(0))
  IN  IF isPositive THEN Times(s, absDelta) ELSE Div(s, absDelta)

\* clampedScale with the lower bound forgotten.
clampedScaleNoMin(unclamped) ==
  MathMin(unclamped, Nullish(args.maxScale, unclamped))

\* clampedScale of handleWheel.
clampedScale(unclamped) ==
  MathMax(MathMin(unclamped, Nullish(args.maxScale, unclamped)),
          Nullish(args.minScale, unclamped))

\* newOffset with the two scaled positions exchanged.
newOffsetExchanged(offset, pos, from, to) ==
  diff(offset, diff(scale(pos, to), scale(pos, from)))

\* newOffset of handleWheel and handleTouchMove: the offset that goes with
\* the scale to.
newOffset(offset, pos, from, to) ==
  diff(offset, diff(scale(pos, from), scale(pos, to)))

\* handleWheel ending the drag in progress.
handleWheelEndsDrag(clientX, clientY, deltaY) ==
  /\ MayStep
  /\ context
  /\ LET pos  == getCursorOffset(clientX, clientY, rect)
         to   == clampedScale(unclamedScale(viewRef.scale, deltaY))
         view == [offset |-> newOffset(viewRef.offset, pos, viewRef.scale, to),
                  scale  |-> to]
     IN  /\ prevPosRef' = posRef
         /\ posRef' = pos
         /\ viewRef' = view
         /\ log' = notify(view, "zoom") \o draw(context, view)
         /\ transform' = drawTransform(context, view)
  /\ isDragging' = FALSE
  /\ UNCHANGED << context, prevPinchDistance >>
  /\ Record([op |-> "wheel", clientX |-> clientX, clientY |-> clientY,
             deltaY |-> deltaY])

handleWheel(clientX, clientY, deltaY) ==
  /\ MayStep
  /\ context
  /\ LET pos  == getCursorOffset(clientX, clientY, rect)
         to   == clampedScale(unclamedScale(viewRef.scale, deltaY))
         view == [offset |-> newOffset(viewRef.offset, pos, viewRef.scale, to),
                  scale  |-> to]
     IN  /\ prevPosRef' = posRef
         /\ posRef' = pos
         /\ viewRef' = view
         /\ log' = notify(view, "zoom") \o draw(context, view)
         /\ transform' = drawTransform(context, view)
  /\ UNCHANGED << context, isDragging, prevPinchDistance >>
  /\ Record([op |-> "wheel", clientX |-> clientX, clientY |-> clientY,
             deltaY |-> deltaY])

\* The listener of touchstart and of touchend.
handleTouchStart(type, touches) ==
  /\ MayStep
  /\ context
  /\ LET c == getTouchCoordinates(touches)
     IN  /\ posRef' = getCursorOffset(c.x, c.y, rect)
         /\ prevPosRef' = posRef'
         /\ prevPinchDistance' =
              IF Len(touches) > 1 THEN getTouchDistance(c.t1, c.t2)
              ELSE prevPinchDistance
  /\ log' = << >>
  /\ UNCHANGED << context, transform, viewRef, isDragging >>
  /\ Record([op |-> type, touches |-> touches])

\* pinchRatio dividing the previous distance by the current one.
pinchRatioInverse(touches) ==
  IF Len(touches) > 1
  THEN LET c == getTouchCoordinates(touches)
       IN  Div(prevPinchDistance, getTouchDistance(c.t1, c.t2))
  ELSE N(1)

\* pinchRatio of handleTouchMove.
pinchRatio(touches) ==
  IF Len(touches) > 1
  THEN LET c == getTouchCoordinates(touches)
       IN  Div(getTouchDistance(c.t1, c.t2), prevPinchDistance)
  ELSE N(1)

\* newScale of handleTouchMove.
newScale(s, ratio) ==
  LET pinchedScale == Times(s, ratio)
  IN  MathMax(MathMin(Times(s, ratio), Nullish(args.maxScale, pinchedScale)),
              Nullish(args.minScale, pinchedScale))

\* The positions handleTouchMove pans between: posRef.current is assigned
\* first and prevPosRef.current is then assigned from it.
touchMovePositions(pos) == [posRef |-> pos, prevPosRef |-> pos]

handleTouchMove(touches) ==
  /\ MayStep
  /\ context
  /\ LET c      == getTouchCoordinates(touches)
         at     == touchMovePositions(getCursorOffset(c.x, c.y, rect))
         panned == add(viewRef.offset, newDiff(at.posRef, at.prevPosRef, viewRef.scale))
         to     == newScale(viewRef.scale, pinchRatio(touches))
         view   == [offset |-> newOffset(panned, at.posRef, viewRef.scale, to),
                    scale  |-> to]
     IN  /\ posRef' = at.posRef
         /\ prevPosRef' = at.prevPosRef
         /\ prevPinchDistance' =
              IF Len(touches) > 1 THEN getTouchDistance(c.t1, c.t2)
              ELSE prevPinchDistance
         /\ viewRef' = view
         /\ log' = notify(view, "zoom") \o draw(context, view)
         /\ transform' = drawTransform(context, view)
  /\ UNCHANGED << context, isDragging >>
  /\ Record([op |-> "touchmove", touches |-> touches])

\* draw(), as the caller may invoke it.
manualDraw ==
  /\ MayStep
  /\ log' = draw(context, viewRef)
  /\ transform' = drawTransform(context, viewRef)
  /\ UNCHANGED << context, viewRef, posRef, prevPosRef, isDragging, prevPinchDistance >>
  /\ Record([op |-> "draw"])

Next ==
  \/ contextInit
  \/ \E v \in SetViews : setView(v)
  \/ \E b \in SetViewBoxes : setViewBox(b)
  \/ manualDraw
  \/ \E p \in MousePoints : handleMouseDown(p[1], p[2])
  \/ \E p \in MousePoints : handleMouseMove(p[1], p[2])
  \/ handleMouseUp("mouseup")
  \/ handleMouseUp("mouseleave")
  \/ \E p \in WheelPoints, d \in WheelDeltas : handleWheel(p[1], p[2], d)
  \/ \E t \in TouchStartLists : handleTouchStart("touchstart", t)
  \/ \E t \in TouchMoveLists : handleTouchMove(t)
  \/ \E t \in TouchEndLists : handleTouchStart("touchend", t)

Spec == Init /\ [][Next]_vars

----------------------------------------------------------------------------
(* setViewBox on its own, over every small box and canvas size             *)

\* The largest canvas width and height of FitConfigs.
MaxDim == 3

\* The largest absolute box coordinate of FitBoxes.
MaxCoord == 2

FitConfigs ==
  { [args |-> DefaultArgs, canvas |-> Canvas(w, h, 0, 0)] : w \in 1..MaxDim, h \in 1..MaxDim }

FitBoxes ==
  { Box(N(t), N(b), N(l), N(r)) :
      t \in -MaxCoord..MaxCoord, b \in -MaxCoord..MaxCoord,
      l \in -MaxCoord..MaxCoord, r \in -MaxCoord..MaxCoord }

InitFit == Mounted(FitConfigs)

NextFit ==
  \/ contextInit
  \/ \E b \in FitBoxes : steps = 0 /\ setViewBox(b)

SpecFit == InitFit /\ [][NextFit]_vars

----------------------------------------------------------------------------
(* Re-renders, and the right click and resize listeners of part_000        *)

\* The callbacks of part_000: onRightClick, and no onContextInit.
ResizeCallbacks ==
  {"onBeforeDraw", "onDraw", "onViewChange", "onViewBoxChange", "onRightClick"}

LifeConfigs ==
  { [args |-> Args("hook", N(1), N(320), Undefined, Undefined, Callbacks),
     canvas |-> Canvas(400, 300, 10, 20)],
    [args |-> Args("hook", N(1), N(320), Undefined, Undefined, Callbacks),
     canvas |-> Canvas(0, 300, 0, 0)],
    [args |-> Args("index", N(2), N(320), Undefined, Undefined, Callbacks),
     canvas |-> Canvas(400, 300, 0, 0)],
    [args |-> Args("resize", N(2), N(320), Undefined, Undefined, ResizeCallbacks),
     canvas |-> Canvas(400, 400, 10, 20)],
    [args |-> Args("resize", N(1), N(320), Undefined, Undefined, {"onDraw"}),
     canvas |-> Canvas(400, 0, 0, 0)] }

\* The callbacks whose identity a re-render changes.
RerenderSets == { {"onDraw"}, {"onViewChange"}, {"onContextInit"} }

LifePoints == { << N(105), N(100) >> }

LifeDeltas == { N(-160) }

Size(w, h) == [width |-> N(w), height |-> N(h)]

\* Resize notifications: fullscreen or not, window.innerWidth/innerHeight,
\* and the observer's entries (their contentRect).
ResizeInputs ==
  { [isFullscreen |-> FALSE, inner |-> Size(1024, 768), entries |-> << Size(800, 400) >>],
    [isFullscreen |-> FALSE, inner |-> Size(1024, 768), entries |-> << Size(0, 400) >>],
    [isFullscreen |-> TRUE,  inner |-> Size(1024, 768), entries |-> << Size(800, 400) >>],
    [isFullscreen |-> FALSE, inner |-> Size(1024, 768), entries |-> << >>] }

\* The dependencies of the draw callback, of the gesture listener effect
\* and of the effect that initialises the context, draw apart.
drawDeps ==
  IF args.variant = "resize" THEN {"onDraw"} ELSE {"onBeforeDraw", "onDraw"}

listenerDeps ==
  IF args.variant = "resize" THEN {"onViewChange"}
  ELSE {"onViewChange", "onViewBoxChange"}

initDeps == IF args.variant = "resize" THEN {} ELSE {"onContextInit"}

\* The calls of the effect that initialises the context.
initCalls(ctx, v) ==
  (IF args.variant = "resize" THEN << >> ELSE Optional("onContextInit", << >>, ""))
  \o draw(ctx, v)

\* The component renders again with new functions for the callbacks in
\* changed: the effects one of whose dependencies changed run again.
rerender(changed) ==
  /\ MayStep
  /\ changed \subseteq args.bound
  /\ LET drawChanged == changed \cap drawDeps # {}
         reattached  == context /\ (drawChanged \/ changed \cap listenerDeps # {})
         initRerun   == context /\ (drawChanged \/ changed \cap initDeps # {})
     IN  /\ isDragging' = IF reattached THEN FALSE ELSE isDragging
         /\ prevPinchDistance' = IF reattached THEN N(0) ELSE prevPinchDistance
         /\ log' = IF initRerun THEN initCalls(context, viewRef) ELSE << >>
         /\ transform' = IF initRerun THEN drawTransform(context, viewRef) ELSE transform
  /\ UNCHANGED << context, viewRef, posRef, prevPosRef >>
  /\ Record([op |-> "rerender", changed |-> changed])

\* The contextmenu listener, of part_000 only.
handleRightClick(clientX, clientY) ==
  /\ MayStep
  /\ context
  /\ args.variant = "resize"
  /\ log' = LET at == calculateCanvasPosition(viewRef, Minus(clientX, rect.left),
                                              Minus(clientY, rect.top))
            IN  Optional("onRightClick", << clientX, clientY, at.x, at.y >>, "")
  /\ UNCHANGED << context, transform, viewRef, posRef, prevPosRef, isDragging,
                  prevPinchDistance >>
  /\ Record([op |-> "contextmenu", clientX |-> clientX, clientY |-> clientY])

\* resizedCanvas preferring the observed content rectangle to fullscreen.
resizedCanvasEntryFirst(r) ==
  IF r.entries # << >>
  THEN [canvas EXCEPT !.width = r.entries[1].width,
                      !.height = r.entries[1].height]
  ELSE IF r.isFullscreen
       THEN [canvas EXCEPT !.width = r.inner.width, !.height = r.inner.height]
       ELSE canvas

\* The width and height handleResize gives the canvas.
resizedCanvas(r) ==
  IF r.isFullscreen
  THEN [canvas EXCEPT !.width = r.inner.width, !.height = r.inner.height]
  ELSE IF r.entries # << >>
       THEN [canvas EXCEPT !.width = r.entries[1].width,
                           !.height = r.entries[1].height]
       ELSE canvas

\* handleResize that fits the initial view again.
handleResizeReset(r) ==
  /\ MayStep
  /\ context
  /\ args.variant = "resize"
  /\ canvas' = resizedCanvas(r)
  /\ viewRef' = [offset |-> args.initialPosition, scale |-> args.initialScale]
  /\ UNCHANGED << args, context, posRef, prevPosRef, isDragging, prevPinchDistance >>
  /\ log' = notify(viewRef, "set")' \o draw(context, viewRef)'
  /\ transform' = IF drawSkipped(context)' THEN Identity ELSE viewTransform(viewRef)'
  /\ RecordEvent([op |-> "resize", resize |-> r])

\* The resize observer's callback, of part_000 only; the canvas has a parent
\* element, so that the observer is attached.  Assigning the canvas' width
\* or height resets the context's transform.
handleResize(r) ==
  /\ MayStep
  /\ context
  /\ args.variant = "resize"
  /\ canvas' = resizedCanvas(r)
  /\ UNCHANGED << args, context, viewRef, posRef, prevPosRef, isDragging,
                  prevPinchDistance >>
  /\ log' = (IF Gt(canvas.width, N(0)) /\ Gt(canvas.height, N(0))
             THEN << Call("tempContext.drawImage", << N(0), N(0) >>, "") >>
             ELSE << >>)
            \o (IF r.isFullscreen \/ r.entries # << >>
                THEN << Call("canvas.size", << canvas'.width, canvas'.height >>, "") >>
                ELSE << >>)
            \o (IF Gt(canvas'.width, N(0)) /\ Gt(canvas'.height, N(0))
                THEN << Call("drawImage", << viewRef.offset.x, viewRef.offset.y >>, "") >>
                ELSE << >>)
            \o draw(context, viewRef)'
  /\ transform' = IF drawSkipped(context)'
                  THEN (IF r.isFullscreen \/ r.entries # << >> THEN Identity ELSE transform)
                  ELSE viewTransform(viewRef)
  /\ RecordEvent([op |-> "resize", resize |-> r])

InitLife == Mounted(LifeConfigs)

NextLife ==
  \/ contextInit
  \/ \E c \in RerenderSets : rerender(c)
  \/ \E r \in ResizeInputs : handleResize(r)
  \/ \E p \in LifePoints : handleRightClick(p[1], p[2])
  \/ \E v \in SetViews : setView(v)
  \/ manualDraw
  \/ \E p \in LifePoints : handleMouseDown(p[1], p[2])
  \/ \E p \in MousePoints : handleMouseMove(p[1], p[2])
  \/ \E p \in LifePoints, d \in LifeDeltas : handleWheel(p[1], p[2], d)

SpecLife == InitLife /\ [][NextLife]_vars

----------------------------------------------------------------------------
(* A view set and the box it is reported as handed back to setViewBox      *)

TripScales == { Num(1, 2) } \cup { N(k) : k \in 1..MaxDim }

\* Views of positive scale, their offsets in steps of 1/2.
TripViews ==
  { View(Num(x, 2), Num(y, 2), s) :
      x \in -MaxCoord..MaxCoord, y \in -MaxCoord..MaxCoord, s \in TripScales }

\* The owner hands the view box of the current view, as onViewBoxChange
\* reports it, back to setViewBox.
feedBackViewBox ==
  /\ steps = 1
  /\ context
  /\ setViewBox(calculateViewBox(canvasSize, viewRef))

InitTrip == Mounted(FitConfigs)

NextTrip ==
  \/ contextInit
  \/ \E v \in TripViews : steps = 0 /\ setView(v)
  \/ feedBackViewBox

SpecTrip == InitTrip /\ [][NextTrip]_vars

----------------------------------------------------------------------------
(* Pinches: two touches at a choice of distances                           *)

\* The largest distance of the two touches of a pinch, in steps of 10.
MaxPinch == 3

\* Two touches d apart.
PinchTouches(d) == << Touch(N(100), N(100)), Touch(N(100), N(100 + d)) >>

PinchDistances == { 10 * k : k \in 1..MaxPinch }

NextPinch ==
  \/ contextInit
  \/ \E d \in PinchDistances : handleTouchStart("touchstart", PinchTouches(d))
  \/ \E d \in PinchDistances : handleTouchMove(PinchTouches(d))
  \/ handleTouchMove(OneTouchB)
  \/ handleTouchStart("touchend", OneTouchA)

SpecPinch == Init /\ [][NextPinch]_vars

----------------------------------------------------------------------------
(* Properties                                                              *)

BothBounds ==
  /\ args.minScale # Undefined
  /\ args.maxScale # Undefined
  /\ Le(args.minScale, args.maxScale)

WithinBounds(s) == Le(args.minScale, s) /\ Le(s, args.maxScale)

IsZoom == ev.op \in {"wheel", "touchmove"}

\* C1: with minScale <= maxScale both configured, view.scale is within
\* [minScale, maxScale] in every reachable state: after initialisation and
\* after any setView, setViewBox, mouse, wheel and touch event.
C1_ScaleAlwaysWithinBounds == BothBounds => WithinBounds(viewRef.scale)

\* C2: view.scale is strictly positive in every reachable state (the initial
\* scale and every scale given to setView are positive).
C2_ScaleAlwaysPositive == Gt(viewRef.scale, N(0))

\* C3: with minScale <= maxScale both configured, the scale a wheel or
\* touchmove event leaves is within [minScale, maxScale], whatever the scale
\* was before the event.
C3_ZoomResultWithinBounds ==
  (IsZoom /\ BothBounds) => WithinBounds(viewRef.scale)

\* A zoom event that started from a scale outside the bounds.
C3_Witness ==
  /\ IsZoom
  /\ BothBounds
  /\ ~WithinBounds(pre.viewRef.scale)

\* The logical point under the surface position p in a view.
LogicalPoint(offset, p, s) == add(Point(Neg(offset.x), Neg(offset.y)), scale(p, s))

\* The surface position a zoom is anchored at, from the event: the cursor of
\* a wheel event, the midpoint of the two touches of a touchmove event.
AnchorOf(e) ==
  IF e.op = "wheel"
  THEN Point(Minus(e.clientX, canvas.left), Minus(e.clientY, canvas.top))
  ELSE Point(Minus(Div(Plus(e.touches[1].clientX, e.touches[2].clientX), N(2)), canvas.left),
             Minus(Div(Plus(e.touches[1].clientY, e.touches[2].clientY), N(2)), canvas.top))

\* The offset at the start of the zoom step of the last event: for a
\* touchmove, the offset the pan of the event has produced.
OffsetBeforeZoom ==
  IF ev.op = "touchmove"
  THEN add(pre.viewRef.offset, newDiff(posRef, prevPosRef, pre.viewRef.scale))
  ELSE pre.viewRef.offset

IsAnchoredZoom ==
  /\ ev.op = "wheel" \/ (ev.op = "touchmove" /\ Len(ev.touches) = 2)
  /\ Gt(pre.viewRef.scale, N(0))
  /\ Gt(viewRef.scale, N(0))

\* C4: a wheel event at p and a two-touch touchmove with centroid p, with a
\* positive scale before and after, leave the logical point under p where it
\* was before the zoom step, also when the target scale was clamped.
C4_AnchorPreserved ==
  IsAnchoredZoom =>
    LogicalPoint(viewRef.offset, AnchorOf(ev), viewRef.scale)
      = LogicalPoint(OffsetBeforeZoom, AnchorOf(ev), pre.viewRef.scale)

\* A pinch that changed the scale and was clamped to maxScale.
C4_Witness ==
  /\ IsAnchoredZoom
  /\ ev.op = "touchmove"
  /\ args.maxScale # Undefined
  /\ viewRef.scale = args.maxScale
  /\ pre.viewRef.scale # viewRef.scale
  /\ viewRef.offset # pre.viewRef.offset

\* The surface position of the pointer of a mouse or wheel event.
SurfacePoint(e) == Point(Minus(e.clientX, canvas.left), Minus(e.clientY, canvas.top))

IsDragMove ==
  /\ ev.op = "mousemove"
  /\ drag.active
  /\ IsFinite(drag.scale)
  /\ Gt(drag.scale, N(0))

\* C5: after a mousedown at p0 and mousemove events ending at pn, with
\* nothing else in between and the scale s, the offset has moved by
\* (pn - p0) / s on each axis and the scale is s.
C5_DragPansByTotal ==
  IsDragMove =>
    /\ viewRef.offset = add(drag.offset, scale(diff(SurfacePoint(ev), drag.p0), drag.scale))
    /\ viewRef.scale = drag.scale

\* The second mousemove of a drag, at a scale other than 1, away from p0.
C5_Witness ==
  /\ IsDragMove
  /\ pre.op = "mousemove"
  /\ drag.scale # N(1)
  /\ SurfacePoint(ev) # drag.p0

TouchOps == {"touchstart", "touchmove", "touchend"}

\* C6: a single-touch touchmove whose touch is d away from the position of
\* the previous touch event moves the offset by d / scale and keeps the
\* scale.
C6_SingleTouchPans ==
  ( /\ ev.op = "touchmove"
    /\ Len(ev.touches) = 1
    /\ pre.op \in TouchOps
    /\ IsFinite(pre.viewRef.scale)
    /\ Gt(pre.viewRef.scale, N(0)) ) =>
    /\ viewRef.offset =
         add(pre.viewRef.offset,
             scale(diff(Point(Minus(ev.touches[1].clientX, canvas.left),
                              Minus(ev.touches[1].clientY, canvas.top)),
                        pre.posRef),
                   pre.viewRef.scale))
    /\ viewRef.scale = pre.viewRef.scale

\* C7: with the defaults and the canvas at the screen origin, mousedown at
\* (100,100) and mousemove to (150,130) give offset (50,30) at scale 1; a
\* wheel event with deltaY = -160 at (100,100) then gives scale 2 and offset
\* (0,-20), the logical point under (100,100) being where it was.
C7_Scenario ==
  /\ scen = 2 => viewRef = View(N(50), N(30), N(1))
  /\ scen = 3 =>
       /\ viewRef = View(N(0), N(-20), N(2))
       /\ LogicalPoint(viewRef.offset, Point(N(100), N(100)), viewRef.scale)
            = LogicalPoint(pre.viewRef.offset, Point(N(100), N(100)), pre.viewRef.scale)

\* The three events of the scenario have been delivered.
C7_Witness == scen = 3 /\ ev.op = "wheel" /\ pre.op = "mousemove"

\* The unclamped target scale of the last zoom event, from the state the
\* event started in.
ZoomTarget ==
  IF ev.op = "wheel"
  THEN unclamedScale(pre.viewRef.scale, ev.deltaY)
  ELSE IF Len(ev.touches) > 1
       THEN Times(pre.viewRef.scale,
                  Div(getTouchDistance(ev.touches[1], ev.touches[2]),
                      pre.prevPinchDistance))
       ELSE pre.viewRef.scale

\* C8: the scale a wheel or touchmove event commits is the target t with no
\* bound set, min(t, maxScale) with maxScale alone, max(t, minScale) with
\* minScale alone, and max(min(t, maxScale), minScale) with both.
C8_ClampOnlyConfigured ==
  IsZoom =>
    viewRef.scale =
      CASE args.minScale = Undefined /\ args.maxScale = Undefined -> ZoomTarget
        [] args.minScale = Undefined /\ args.maxScale # Undefined ->
             MathMin(ZoomTarget, args.maxScale)
        [] args.minScale # Undefined /\ args.maxScale = Undefined ->
             MathMax(ZoomTarget, args.minScale)
        [] OTHER -> MathMax(MathMin(ZoomTarget, args.maxScale), args.minScale)

IsSetCall(c) == c.call \in {"onViewChange", "onViewBoxChange", "draw"}

\* C9: with a context, setView(v) and setViewBox(b) replace the view and
\* then call onViewChange(view, "set"), onViewBoxChange(viewToViewBox(size,
\* view), "set") and draw, in this order and once each, in every variant.
C9_SettersNotifyAndDraw ==
  (ev.op \in {"setView", "setViewBox"} /\ pre.context) =>
    /\ viewRef = IF ev.op = "setView" THEN ev.view
                 ELSE calculateCanvasView(canvasSize, ev.viewBox)
    /\ SelectSeq(log, IsSetCall)
         = Optional("onViewChange", ViewArg(viewRef), "set")
           \o Optional("onViewBoxChange", BoxArg(calculateViewBox(canvasSize, viewRef)), "set")
           \o << Call("draw", << >>, "") >>

IsFit ==
  /\ ev.op = "setViewBox"
  /\ pre.context
  /\ Lt(ev.viewBox.left, ev.viewBox.right)
  /\ Lt(ev.viewBox.top, ev.viewBox.bottom)
  /\ Gt(canvas.width, N(0))
  /\ Gt(canvas.height, N(0))

\* C10: for a box with right > left and bottom > top and a canvas of positive
\* width and height, the view of setViewBox has the scale min(width /
\* boxWidth, height / boxHeight) > 0, and its visible logical rectangle
\* contains the box and has the centre of the box.
C10_AspectFit ==
  IsFit =>
    LET b       == ev.viewBox
        s       == viewRef.scale
        visL    == Neg(viewRef.offset.x)
        visT    == Neg(viewRef.offset.y)
        visR    == Plus(visL, Div(canvas.width, s))
        visB    == Plus(visT, Div(canvas.height, s))
    IN  /\ s = MathMin(Div(canvas.width, Minus(b.right, b.left)),
                       Div(canvas.height, Minus(b.bottom, b.top)))
        /\ Gt(s, N(0))
        /\ Le(visL, b.left) /\ Le(b.right, visR)
        /\ Le(visT, b.top) /\ Le(b.bottom, visB)
        /\ Plus(visL, visR) = Plus(b.left, b.right)
        /\ Plus(visT, visB) = Plus(b.top, b.bottom)

\* A fit of a box of another aspect ratio than the canvas: the visible
\* rectangle is strictly larger than the box on one axis.
C10_Witness ==
  /\ IsFit
  /\ Lt(Neg(viewRef.offset.x), ev.viewBox.left)
  /\ Neg(viewRef.offset.y) = ev.viewBox.top

GestureOps ==
  {"mousedown", "mousemove", "mouseup", "mouseleave", "wheel", "touchstart",
   "touchmove", "touchend"}

\* C11: while the context is null, setView, setViewBox and draw leave the
\* view as it was and call no callback and no context method; no listener is
\* attached, so every gesture event is handled with a context, and the view
\* is the initial one until the context is there.
C11_NoOpsWithoutContext ==
  /\ (~pre.context /\ ev.op \in {"setView", "setViewBox", "draw"}) =>
       /\ viewRef = pre.viewRef
       /\ \A i \in DOMAIN log : log[i].call = "draw"
  /\ ev.op \in GestureOps => pre.context
  /\ ~context =>
       /\ viewRef = [offset |-> args.initialPosition, scale |-> args.initialScale]
       /\ transform = Identity

\* setView with another view than the current one, and draw, before the
\* context is there, with the callbacks bound.
C11_Witness ==
  /\ ~context
  /\ "onViewChange" \in args.bound /\ "onDraw" \in args.bound
  /\ \/ ev.op = "setView" /\ ev.view # viewRef /\ pre.op = "draw"
     \/ ev.op = "draw" /\ pre.op = "setViewBox"

\* The effect of a context method on the context's transform (uniform
\* scales and translations only).
ApplyCall(t, c) ==
  CASE c.call = "resetTransform" -> Identity
    [] c.call = "scale" -> [a |-> Times(t.a, c.arg[1]), e |-> t.e, f |-> t.f]
    [] c.call = "translate" ->
         [a |-> t.a, e |-> Plus(t.e, Times(t.a, c.arg[1])),
          f |-> Plus(t.f, Times(t.a, c.arg[2]))]
    [] OTHER -> t

RECURSIVE TransformAfter(_, _, _)
\* The context's transform after the first k of the calls, from t0.
TransformAfter(calls, k, t0) ==
  IF k = 0 THEN t0 ELSE ApplyCall(TransformAfter(calls, k - 1, t0), calls[k])

HasDraw == \E i \in DOMAIN log : log[i].call = "draw"

\* The calls of the draw of the last step, its invocation first.
DrawPart ==
  SubSeq(log, CHOOSE i \in DOMAIN log : log[i].call = "draw", Len(log))

\* Some transform left on the context by whatever came before the draw.
StaleTransform == [a |-> N(7), e |-> N(-3), f |-> N(5)]

DrawPerformed ==
  HasDraw /\ context /\ canvas.width # N(0) /\ canvas.height # N(0)

\* C13: a draw with a context and a canvas of non-zero width and height is
\* the sequence resetTransform, onBeforeDraw (if bound), scale, translate,
\* clearRect, onDraw (if bound), each once; replaying the context calls,
\* onBeforeDraw sees the identity and onDraw the transform of the current
\* view, which is the transform the draw leaves.
C13_DrawSequence ==
  DrawPerformed =>
    LET d  == DrawPart
        vt == [a |-> viewRef.scale,
               e |-> Times(viewRef.scale, viewRef.offset.x),
               f |-> Times(viewRef.scale, viewRef.offset.y)]
    IN  /\ [i \in DOMAIN d |-> d[i].call]
             = << "draw", "resetTransform" >>
               \o (IF "onBeforeDraw" \in args.bound THEN << "onBeforeDraw" >> ELSE << >>)
               \o << "scale", "translate", "clearRect" >>
               \o (IF "onDraw" \in args.bound THEN << "onDraw" >> ELSE << >>)
        /\ \A i \in DOMAIN d :
             /\ d[i].call = "onBeforeDraw" =>
                  /\ TransformAfter(d, i - 1, StaleTransform) = Identity
                  /\ d[i].arg = TransformArg(Identity)
             /\ d[i].call = "onDraw" =>
                  /\ TransformAfter(d, i - 1, StaleTransform) = vt
                  /\ d[i].arg = TransformArg(vt)
        /\ TransformAfter(d, Len(d), StaleTransform) = vt
        /\ transform = vt

\* The draw of a wheel event that left a scale other than 1 and an offset
\* other than (0,0), with both draw callbacks bound.
C13_Witness ==
  /\ DrawPerformed
  /\ ev.op = "wheel"
  /\ {"onBeforeDraw", "onDraw"} \subseteq args.bound
  /\ IsFinite(viewRef.scale) /\ Gt(viewRef.scale, N(1))
  /\ viewRef.offset.x # N(0) /\ IsFinite(viewRef.offset.x)

\* C14: in hook.ts, for a view with scale > 0 and a canvas of positive
\* width and height, the rectangle given to clearRect contains the visible
\* logical rectangle [-x, -x + width/scale] x [-y, -y + height/scale].
C14_ClearCoversVisible ==
  \A i \in DOMAIN log :
    ( /\ log[i].call = "clearRect"
      /\ args.variant = "hook"
      /\ IsFinite(viewRef.scale) /\ Gt(viewRef.scale, N(0))
      /\ IsFinite(viewRef.offset.x) /\ IsFinite(viewRef.offset.y) ) =>
      LET r    == log[i].arg
          visL == Neg(viewRef.offset.x)
          visT == Neg(viewRef.offset.y)
          visR == Plus(visL, Div(canvas.width, viewRef.scale))
          visB == Plus(visT, Div(canvas.height, viewRef.scale))
      IN  /\ Le(r[1], visL) /\ Le(visR, Plus(r[1], r[3]))
          /\ Le(r[2], visT) /\ Le(visB, Plus(r[2], r[4]))

\* C17: the position a touch event with one touch leaves in posRef is that
\* touch's (clientX, clientY), and with two touches their midpoint, both
\* relative to the canvas' bounding rectangle.
C17_TouchCentroid ==
  (ev.op \in TouchOps /\ Len(ev.touches) \in {1, 2}) =>
    LET t == ev.touches
        c == IF Len(t) = 1
             THEN Point(t[1].clientX, t[1].clientY)
             ELSE Point(Div(Plus(t[1].clientX, t[2].clientX), N(2)),
                        Div(Plus(t[1].clientY, t[2].clientY), N(2)))
    IN  posRef = Point(Minus(c.x, canvas.left), Minus(c.y, canvas.top))

\* A touch event with two touches whose midpoint is neither of them, after
\* a touch event with one touch.
C17_Witness ==
  /\ ev.op \in TouchOps /\ Len(ev.touches) = 2
  /\ posRef # Point(Minus(ev.touches[1].clientX, canvas.left),
                    Minus(ev.touches[1].clientY, canvas.top))
  /\ pre.op \in TouchOps
  /\ pre.posRef = Point(Minus(N(100), canvas.left), Minus(N(100), canvas.top))

IsViewGesture ==
  \/ ev.op \in {"wheel", "touchmove"}
  \/ ev.op = "mousemove" /\ pre.isDragging

\* C20: a mousemove while dragging, a wheel event and a touchmove call, in
\* this order and once each, onViewChange(view, reason),
\* onViewBoxChange(calculateViewBox(canvas, view), reason) and draw, with the
\* view the event has left; reason is "move" for the mousemove and "zoom"
\* for wheel and touchmove.
C20_GestureNotifyThenDraw ==
  IsViewGesture =>
    LET reason == IF ev.op = "mousemove" THEN "move" ELSE "zoom"
    IN  SelectSeq(log, IsSetCall)
          = Optional("onViewChange", ViewArg(viewRef), reason)
            \o Optional("onViewBoxChange",
                        BoxArg(calculateViewBox(canvasSize, viewRef)), reason)
            \o << Call("draw", << >>, "") >>

\* A mousemove of a drag that changed the view, with both notifications
\* bound.
C20_Witness ==
  /\ IsViewGesture
  /\ ev.op = "mousemove"
  /\ {"onViewChange", "onViewBoxChange"} \subseteq args.bound
  /\ viewRef # pre.viewRef
  /\ calculateViewBox(canvasSize, viewRef) # calculateViewBox(canvasSize, pre.viewRef)

IsInteger(q) == q[2] = 1

\* setViewBox was given the view box of the view a setView had just set.
IsTrip ==
  /\ ev.op = "setViewBox"
  /\ pre.op = "setView"
  /\ pre.context
  /\ Gt(pre.viewRef.scale, N(0))
  /\ ev.viewBox = calculateViewBox(canvasSize, pre.viewRef)

TripIsExact ==
  /\ IsInteger(pre.viewRef.offset.x)
  /\ IsInteger(pre.viewRef.offset.y)
  /\ IsInteger(Div(canvas.width, pre.viewRef.scale))
  /\ IsInteger(Div(canvas.height, pre.viewRef.scale))

\* C15: for a canvas of positive width and height and a view v of scale > 0,
\* calculateCanvasView(size, calculateViewBox(size, v)) is a finite view, and
\* it is v when -offset.x, -offset.y, width/scale and height/scale are
\* integers.
C15_RoundTrip ==
  IsTrip =>
    /\ IsFinite(viewRef.scale)
    /\ IsFinite(viewRef.offset.x) /\ IsFinite(viewRef.offset.y)
    /\ TripIsExact => viewRef = pre.viewRef

ZeroArea == canvas.width = N(0) \/ canvas.height = N(0)

\* C12: with a canvas of width 0 or height 0 a draw does nothing: it calls
\* no context method and neither onBeforeDraw nor onDraw; and draw() never
\* changes the view.
C12_ZeroAreaDrawNoOp ==
  /\ (HasDraw /\ ZeroArea) => DrawPart = << Call("draw", << >>, "") >>
  /\ ev.op = "draw" => viewRef = pre.viewRef

\* A draw with a context and the draw callback bound, on a canvas a resize
\* has given the width 0, and one on a canvas mounted with zero area.
C12_Witness ==
  /\ HasDraw /\ ZeroArea /\ context
  /\ "onDraw" \in args.bound
  /\ \/ ev.op = "resize" /\ canvas.width = N(0) /\ canvas.height # N(0)
     \/ ev.op = "setView" /\ args.variant = "hook"

IsNotification(c) == c.call \in {"onViewChange", "onViewBoxChange"}

\* C16: handleResize leaves view.offset and view.scale as they were and
\* calls neither onViewChange nor onViewBoxChange, whatever the old and the
\* new size.
C16_ResizeKeepsView ==
  ev.op = "resize" =>
    /\ viewRef = pre.viewRef
    /\ SelectSeq(log, IsNotification) = << >>

\* A resize that changed the canvas' size and redrew a view other than the
\* initial one, with the notifications bound.
C16_Witness ==
  /\ ev.op = "resize"
  /\ canvas.width = N(800) /\ canvas.height = N(400)
  /\ viewRef # [offset |-> args.initialPosition, scale |-> args.initialScale]
  /\ {"onViewChange", "onViewBoxChange"} \subseteq args.bound
  /\ DrawPerformed

IsContextInitCall(c) == c.call = "onContextInit"

\* C18: onContextInit is called by the step in which the context becomes
\* available, once, and by no later step: no re-render with other callbacks,
\* gesture, setView or draw calls it.
C18_ContextInitOnce ==
  /\ ev.op = "contextInit" => Len(SelectSeq(log, IsContextInitCall)) <= 1
  /\ ev.op # "contextInit" => SelectSeq(log, IsContextInitCall) = << >>

\* C19: a contextmenu event at the surface position (px, py) calls
\* onRightClick, when bound, with the logical point (round(-offset.x +
\* px/scale), round(-offset.y + py/scale)) of the current view, and nothing
\* else; the view and isDragging stay as they were.
C19_RightClick ==
  ev.op = "contextmenu" =>
    LET px == Minus(ev.clientX, canvas.left)
        py == Minus(ev.clientY, canvas.top)
        lx == MathRound(Plus(Neg(viewRef.offset.x), Div(px, viewRef.scale)))
        ly == MathRound(Plus(Neg(viewRef.offset.y), Div(py, viewRef.scale)))
    IN  /\ log = IF "onRightClick" \in args.bound
                 THEN << Call("onRightClick", << ev.clientX, ev.clientY, lx, ly >>, "") >>
                 ELSE << >>
        /\ viewRef = pre.viewRef
        /\ isDragging = pre.isDragging

\* A right click during a drag, with onRightClick bound, at a position whose
\* logical x is not an integer before rounding.
C19_Witness ==
  /\ ev.op = "contextmenu"
  /\ "onRightClick" \in args.bound
  /\ isDragging
  /\ ~IsInteger(Plus(Neg(viewRef.offset.x),
                     Div(Minus(ev.clientX, canvas.left), viewRef.scale)))

\* A wheel event with 0 < |deltaY| < zoomSensitivity, from a finite scale > 0
\* within the configured bounds.
IsWheelStep ==
  /\ ev.op = "wheel"
  /\ ev.deltaY # N(0)
  /\ Lt(MathAbs(ev.deltaY), args.zoomSensitivity)
  /\ IsFinite(pre.viewRef.scale) /\ Gt(pre.viewRef.scale, N(0))
  /\ InConfiguredBounds(pre.viewRef.scale)

\* 1 - |deltaY| / zoomSensitivity of the last wheel event.
WheelFactor == Minus(N(1), Div(MathAbs(ev.deltaY), args.zoomSensitivity))

WheelTarget ==
  IF Gt(ev.deltaY, N(0)) THEN Times(pre.viewRef.scale, WheelFactor)
  ELSE Div(pre.viewRef.scale, WheelFactor)

\* C21: a wheel event with 0 < |deltaY| < zoomSensitivity, from a scale > 0
\* within the configured bounds, does not increase the scale when deltaY > 0
\* and does not decrease it when deltaY < 0; when the target scale * factor
\* (deltaY > 0) or scale / factor (deltaY < 0), factor = 1 - |deltaY| /
\* zoomSensitivity, is within the bounds, it is the new scale.
C21_WheelDirection ==
  IsWheelStep =>
    /\ Gt(ev.deltaY, N(0)) => Le(viewRef.scale, pre.viewRef.scale)
    /\ Lt(ev.deltaY, N(0)) => Le(pre.viewRef.scale, viewRef.scale)
    /\ InConfiguredBounds(WheelTarget) => viewRef.scale = WheelTarget

\* A wheel event that zoomed in to its target, with both bounds configured,
\* after one that zoomed out and was held at minScale.
C21_Witness ==
  /\ IsWheelStep /\ BothBounds
  /\ Lt(ev.deltaY, N(0))
  /\ viewRef.scale = WheelTarget /\ viewRef.scale # pre.viewRef.scale
  /\ pre.op = "wheel" /\ pre.viewRef.scale = args.minScale

\* C23: a wheel event leaves isDragging and the pinch baseline as they
\* were, so that the mousemove after it pans (notifies and draws) when a
\* drag was in progress and does nothing when none was.
C23_WheelKeepsDragState ==
  /\ ev.op = "wheel" =>
       /\ isDragging = pre.isDragging
       /\ prevPinchDistance = pre.prevPinchDistance
  /\ (ev.op = "mousemove" /\ pre.op = "wheel") =>
       IF pre.isDragging
       THEN /\ HasDraw
            /\ viewRef.offset = add(pre.viewRef.offset,
                                    scale(diff(SurfacePoint(ev), pre.posRef),
                                          pre.viewRef.scale))
       ELSE log = << >> /\ viewRef = pre.viewRef

\* A mousemove that panned, after a wheel event during a drag.
C23_Witness ==
  /\ ev.op = "mousemove" /\ pre.op = "wheel"
  /\ pre.isDragging
  /\ IsFinite(viewRef.offset.x)
  /\ viewRef.offset # pre.viewRef.offset

\* C24: mouseup and mouseleave leave the engine not dragging; a mousemove
\* while not dragging changes nothing of the view and positions and calls
\* no notification and no draw; only a mousedown starts a drag.
C24_IdleAfterUpOrLeave ==
  /\ ev.op \in {"mouseup", "mouseleave"} => ~isDragging
  /\ (ev.op = "mousemove" /\ ~pre.isDragging) =>
       /\ viewRef = pre.viewRef
       /\ posRef = pre.posRef /\ prevPosRef = pre.prevPosRef
       /\ log = << >>
       /\ ~isDragging
  /\ (isDragging /\ ~pre.isDragging) => ev.op = "mousedown"

\* A mouseleave that ended a drag which had panned the view.
C24_Witness ==
  /\ ev.op = "mouseleave"
  /\ pre.isDragging /\ pre.op = "mousemove"
  /\ pre.viewRef.offset # args.initialPosition
  /\ ~isDragging

\* A two-touch touchmove of a pinch that began with a two-touch touchstart
\* and none of whose targets was outside the bounds.
IsPinchMove ==
  /\ ev.op = "touchmove"
  /\ pinch.active
  /\ ~pinch.clamped
  /\ IsFinite(pinch.scale) /\ Gt(pinch.scale, N(0))

\* C22: after a touchstart with two touches d0 > 0 apart and two-touch
\* touchmove events with distances d1..dn > 0 and no target outside the
\* bounds, the scale is the scale at the touchstart times dn / d0, and the
\* pinch baseline is dn.
C22_PinchTelescopes ==
  IsPinchMove =>
    LET dn == getTouchDistance(ev.touches[1], ev.touches[2])
    IN  /\ viewRef.scale = Times(pinch.scale, Div(dn, pinch.d0))
        /\ prevPinchDistance = dn

\* The second touchmove of a pinch, the three distances all different.
C22_Witness ==
  /\ IsPinchMove
  /\ pre.op = "touchmove"
  /\ prevPinchDistance # pre.prevPinchDistance
  /\ pre.prevPinchDistance # pinch.d0
  /\ prevPinchDistance # pinch.d0

\* The average of up to two touch points: the touch itself for one touch,
\* the midpoint of the first two otherwise.
TouchCentroid(t) ==
  IF Len(t) = 1
  THEN Point(t[1].clientX, t[1].clientY)
  ELSE Point(Div(Plus(t[1].clientX, t[2].clientX), N(2)),
             Div(Plus(t[1].clientY, t[2].clientY), N(2)))

\* C25: touchstart and touchend do the same: they set posRef and prevPosRef
\* to the centroid of the event's touches, set the pinch baseline to the
\* distance of the first two touches when there is more than one touch and
\* leave it otherwise, and change no view and call no notification and no
\* draw.
C25_TouchStartEndRebaseline ==
  (ev.op \in {"touchstart", "touchend"} /\ Len(ev.touches) >= 1) =>
    /\ posRef = diff(TouchCentroid(ev.touches), Point(canvas.left, canvas.top))
    /\ prevPosRef = posRef
    /\ prevPinchDistance =
         IF Len(ev.touches) > 1
         THEN getTouchDistance(ev.touches[1], ev.touches[2])
         ELSE pre.prevPinchDistance
    /\ viewRef = pre.viewRef
    /\ log = << >>

\* The rectangle r = (x, y, w, h) contains the visible logical rectangle of
\* the current view.
CoversVisible(r) ==
  LET visL == Neg(viewRef.offset.x)
      visT == Neg(viewRef.offset.y)
      visR == Plus(visL, Div(canvas.width, viewRef.scale))
      visB == Plus(visT, Div(canvas.height, viewRef.scale))
  IN  /\ Le(r[1], visL) /\ Le(visR, Plus(r[1], r[3]))
      /\ Le(r[2], visT) /\ Le(visB, Plus(r[2], r[4]))

IsIndexClear(c) ==
  /\ c.call = "clearRect"
  /\ args.variant = "index"
  /\ IsFinite(viewRef.scale) /\ Gt(viewRef.scale, N(0))
  /\ IsFinite(viewRef.offset.x) /\ IsFinite(viewRef.offset.y)

\* C27: in index.tsx, for a view with scale > 0 and a canvas of positive
\* width and height, the rectangle given to clearRect, of origin (-x - width,
\* -y - height) and extent (width + width/scale, height + height/scale),
\* contains the visible logical rectangle.
C27_IndexClearCoversVisible ==
  \A i \in DOMAIN log :
    IsIndexClear(log[i]) =>
      /\ log[i].arg = << Minus(Neg(viewRef.offset.x), canvas.width),
                         Minus(Neg(viewRef.offset.y), canvas.height),
                         Plus(canvas.width, Div(canvas.width, viewRef.scale)),
                         Plus(canvas.height, Div(canvas.height, viewRef.scale)) >>
      /\ CoversVisible(log[i].arg)

\* A draw of index.tsx after a wheel event, at a scale other than 1 and an
\* offset other than (0,0).
C27_Witness ==
  /\ \E i \in DOMAIN log : IsIndexClear(log[i])
  /\ ev.op = "wheel"
  /\ viewRef.scale # pre.viewRef.scale
  /\ viewRef.offset.x # N(0)

\* C29: for a touch list of three or more touches the position used is the
\* midpoint of the first two touches, which lies in their bounding box.
C29_ThreeTouchCentroid ==
  (ev.op \in TouchOps /\ Len(ev.touches) >= 3) =>
    LET t == ev.touches
        p == add(posRef, Point(canvas.left, canvas.top))
    IN  /\ p = TouchCentroid(t)
        /\ Le(MathMin(t[1].clientX, t[2].clientX), p.x)
        /\ Le(p.x, MathMax(t[1].clientX, t[2].clientX))
        /\ Le(MathMin(t[1].clientY, t[2].clientY), p.y)
        /\ Le(p.y, MathMax(t[1].clientY, t[2].clientY))

IsBoxCall(c) == c.call = "onViewBoxChange"

\* C30: every box given to onViewBoxChange while the view has a scale > 0
\* has right >= left and bottom >= top, after any setter and gesture.
C30_ViewBoxOrdered ==
  \A i \in DOMAIN log :
    (IsBoxCall(log[i]) /\ Gt(viewRef.scale, N(0))) =>
      /\ Le(log[i].arg[1], log[i].arg[2])
      /\ Le(log[i].arg[3], log[i].arg[4])

\* A box reported by a touchmove that is wider than it is tall, after
\* another view change.
C30_Witness ==
  /\ \E i \in DOMAIN log :
       /\ IsBoxCall(log[i])
       /\ Lt(log[i].arg[3], log[i].arg[4])
       /\ Lt(Minus(log[i].arg[2], log[i].arg[1]), Minus(log[i].arg[4], log[i].arg[3]))
  /\ ev.op = "touchmove"
  /\ IsFinite(viewRef.scale) /\ Gt(viewRef.scale, N(0))
  /\ pre.viewRef.scale # args.initialScale

IsDrawCall(c) == c.call = "draw"

\* The names of the calls of the last step before its draw.
CallsBeforeDraw ==
  LET k == CHOOSE i \in DOMAIN log : log[i].call = "draw"
  IN  [i \in 1..(k - 1) |-> log[i].call]

\* C26: handleResize gives the canvas the window's inner size in fullscreen,
\* else the content rectangle of the first entry, else leaves it; it copies
\* the raster before that only if the old canvas had positive width and
\* height and draws it back only if the new one has; and it ends with one
\* draw, of the resized canvas.
C26_ResizeProcedure ==
  ev.op = "resize" =>
    LET r        == ev.resize
        assigned == r.isFullscreen \/ r.entries # << >>
        size     == IF r.isFullscreen THEN r.inner
                    ELSE IF r.entries # << >> THEN r.entries[1]
                    ELSE [width |-> pre.canvas.width, height |-> pre.canvas.height]
        hadArea  == Gt(pre.canvas.width, N(0)) /\ Gt(pre.canvas.height, N(0))
        hasArea  == Gt(size.width, N(0)) /\ Gt(size.height, N(0))
    IN  /\ canvas = [pre.canvas EXCEPT !.width = size.width, !.height = size.height]
        /\ Len(SelectSeq(log, IsDrawCall)) = 1
        /\ CallsBeforeDraw
             = (IF hadArea THEN << "tempContext.drawImage" >> ELSE << >>)
               \o (IF assigned THEN << "canvas.size" >> ELSE << >>)
               \o (IF hasArea THEN << "drawImage" >> ELSE << >>)
        /\ IF hasArea
           THEN \E i \in DOMAIN DrawPart :
                  /\ DrawPart[i].call = "clearRect"
                  /\ DrawPart[i].arg[3] = Div(size.width, viewRef.scale)
                  /\ DrawPart[i].arg[4] = Div(size.height, viewRef.scale)
           ELSE DrawPart = << Call("draw", << >>, "") >>

\* A resize in fullscreen, to the window's size and not to the entry's, of
\* a canvas that had no area.
C26_Witness ==
  /\ ev.op = "resize"
  /\ ev.resize.isFullscreen /\ ev.resize.entries # << >>
  /\ pre.canvas.height = N(0)
  /\ canvas.width = N(1024) /\ canvas.height = N(768)

\* C28: when a changed callback makes the listener effect run again, a
\* drag in progress and the pinch baseline are kept, as the view is.
C28_GestureStateSurvives ==
  ev.op = "rerender" =>
    /\ isDragging = pre.isDragging
    /\ prevPinchDistance = pre.prevPinchDistance
    /\ viewRef = pre.viewRef

\* A mousemove of a drag since whose mousedown only mousemove, touchstart
\* and touchend events were delivered.
IsHeldMove ==
  /\ ev.op = "mousemove"
  /\ held.active
  /\ IsFinite(held.scale) /\ Gt(held.scale, N(0))

\* C31: over a mouse drag from p0 to pn at the scale s the offset changes by
\* (pn - p0) / s, whatever touchstart and touchend events at other positions
\* are delivered between its mousedown and its mousemove events.
C31_DragIgnoresTouches ==
  IsHeldMove =>
    /\ viewRef.offset = add(held.offset, scale(diff(SurfacePoint(ev), held.p0), held.scale))
    /\ viewRef.scale = held.scale

====
